---- MODULE Spec2Model ----
(***************************************************************************)
(* The chat session controller of the Hephix frontend: the React component *)
(* App of the session-aware variant (state hooks, handleSend, loadSession, *)
(* loadSessions, handleNewChat, handleStoreChange) together with the       *)
(* localStorage keys hephix_sid and hephix_store and the fetches that are  *)
(* in flight.  Every event handler runs to its first await as one step;    *)
(* the continuation after the awaited fetch is a second step that takes    *)
(* the response as its input.  The view's disabled attribute on the input  *)
(* and the send button is not part of the controller: the handlers' own    *)
(* guards are what is modelled.  Message ids (Date.now()) are left out.    *)
(***************************************************************************)
EXTENDS Integers, Sequences, FiniteSets, TLC

VARIABLES draft, isSending, error, messages, sessionId, store, sessions,
          lsSid, lsStore, chatReqs, loadReqs, listReqs,
          lastOp, nAccepted, nAiAppended, sidFromChat, loadedFrom

vars == <<draft, isSending, error, messages, sessionId, store, sessions,
          lsSid, lsStore, chatReqs, loadReqs, listReqs,
          lastOp, nAccepted, nAiAppended, sidFromChat, loadedFrom>>

\* lastOp, nAccepted, nAiAppended, sidFromChat and loadedFrom are history
\* variables: the last step of handleSend, loadSession, handleNewChat or
\* handleStoreChange made (typing and session-list refreshes are not
\* recorded), the number of submissions accepted, the number of assistant
\* messages submissions appended, whether the session id held was adopted from
\* a chat response that succeeded, and the data.messages that step rebuilt
\* the message list from (empty when it rebuilt nothing).

(* ---------------------------- bounds ----------------------------------- *)
MaxSubmits == 2
MaxLoadReqs == 1
MaxListReqs == 1

(* ------------------------- JavaScript values --------------------------- *)
\* undefined / null / a missing key or field
Undef == "<undefined>"

Falsy(v) == v \in {"", Undef}

\* String(v) as localStorage.setItem applies it to its value
StorageString(v) == IF v = Undef THEN "undefined" ELSE v

startsWith(s, p) == Len(s) >= Len(p) /\ SubSeq(s, 1, Len(p)) = p

IsSpace(c) == c \in {" ", "\n", "\t"}

RECURSIVE trimStart(_)
trimStart(s) ==
  IF Len(s) > 0 /\ IsSpace(SubSeq(s, 1, 1))
  THEN trimStart(SubSeq(s, 2, Len(s)))
  ELSE s

RECURSIVE trimEnd(_)
trimEnd(s) ==
  IF Len(s) > 0 /\ IsSpace(SubSeq(s, Len(s), Len(s)))
  THEN trimEnd(SubSeq(s, 1, Len(s) - 1))
  ELSE s

trim(s) == trimEnd(trimStart(s))

(* ------------------------------ domains -------------------------------- *)
Stores == {"depo", "darel", "ebay"}

SessionIds == {"depo-1", "darel-1"}

Drafts == {"  ", " hi "}

\* what localStorage holds when the page is opened: <<hephix_sid, hephix_store>>
InitStorage == {<<Undef, Undef>>, <<"darel-1", "darel">>}

apiBaseUrl == ""

(* ----------------------- responses of the Chat API --------------------- *)
ChatResp(k, e, st, m, sid, txt, res) ==
  [kind |-> k, isError |-> e, status |-> st, message |-> m,
   session_id |-> sid, response |-> txt, results |-> res]

SomeResults == <<[title |-> "drill", price |-> "9.99"]>>

\* reject: fetch rejects (isError: the rejection is an Error instance, as every
\*         rejection of fetch is)
\* http  : a response whose ok flag is false
\* badjson: response.json() rejects
\* json  : the body is an object
ChatResponses ==
  {ChatResp("reject", TRUE, 0, "Failed to fetch", Undef, Undef, <<>>),
   ChatResp("http", TRUE, 500, "", Undef, Undef, <<>>),
   ChatResp("badjson", TRUE, 200, "Unexpected token < in JSON", Undef, Undef, <<>>)}
  \cup {ChatResp("json", TRUE, 200, "", sid, txt, <<>>) :
          sid \in SessionIds \cup {Undef}, txt \in {"", " ok\n"}}
  \cup {ChatResp("json", TRUE, 200, "", Undef, " ", <<>>),
        ChatResp("json", TRUE, 200, "", Undef, Undef, <<>>),
        ChatResp("json", TRUE, 200, "", Undef, Undef, SomeResults),
        ChatResp("json", TRUE, 200, "", "depo-1", " ok\n", SomeResults)}

(* ------------------- responses of the Session Store API ---------------- *)
\* hasSessions = FALSE: the body is an object without a sessions field
ListResp(k, st, has, ss) ==
  [kind |-> k, status |-> st, hasSessions |-> has, sessions |-> ss]

SessionInfo(id, t) == [session_id |-> id, updated_at |-> t]

SessionLists ==
  {<<>>, <<SessionInfo("darel-1", 2), SessionInfo("depo-1", 1)>>}

ListResponses ==
  {ListResp("reject", 0, FALSE, <<>>), ListResp("badjson", 200, FALSE, <<>>),
   ListResp("json", 200, FALSE, <<>>), ListResp("json", 500, FALSE, <<>>)}
  \cup {ListResp("json", 200, TRUE, ss) : ss \in SessionLists}

(* history entries: {type, data?: {content}} *)
Content(k, s, ps, n) == [kind |-> k, str |-> s, parts |-> ps, num |-> n]

Part(t, x) == [type |-> t, text |-> x]

Entry(t, d, c) == [type |-> t, hasData |-> d, content |-> c]

NoContent == Content("undefined", "", <<>>, 0)

StringContent == Content("string", "hi", <<>>, 0)

HelloContent ==
  Content("array", "", <<Part("text", "hello"), Part("tool_use", Undef)>>, 0)

\* the entries histories are made of: a human and an ai entry of every shape
\* of content, and entries of the types that are dropped
HistoryEntries ==
  {Entry("human", TRUE, StringContent),
   Entry("human", FALSE, NoContent),
   Entry("human", TRUE, Content("number", "", <<>>, 42)),
   Entry("ai", TRUE, HelloContent),
   Entry("ai", TRUE,
         Content("array", "",
                 <<Part("text", "a"), Part("tool_use", "t"), Part("text", "b")>>, 0)),
   Entry("ai", TRUE, NoContent),
   Entry("system", FALSE, NoContent),
   Entry("tool", TRUE, StringContent),
   Entry(Undef, TRUE, StringContent)}

\* hasMessages = FALSE: the body is an object without a messages field
LoadResp(k, st, sid, has, ms) ==
  [kind |-> k, status |-> st, session_id |-> sid, hasMessages |-> has,
   messages |-> ms]

\* the bodies the API may answer a request for session id with
LoadResponsesOver(id, hs) ==
  {LoadResp("reject", 0, Undef, FALSE, <<>>),
   LoadResp("badjson", 200, Undef, FALSE, <<>>),
   LoadResp("json", 404, Undef, FALSE, <<>>),
   LoadResp("json", 200, Undef, FALSE, <<>>),
   LoadResp("json", 200, id, FALSE, <<>>)}
  \cup {LoadResp("json", 200, id, TRUE, h) : h \in hs}

(* ---------------------- loadSession: history rebuild ------------------- *)
\* String(v) of a content that is neither an array nor a string
StringOf(c) ==
  CASE c.kind = "number" -> ToString(c.num)
    [] OTHER -> "undefined"

\* Array.prototype.join("\n"): an undefined element joins as the empty string
RECURSIVE join(_)
join(xs) ==
  IF Len(xs) = 0 THEN ""
  ELSE LET h == IF Head(xs) = Undef THEN "" ELSE Head(xs)
       IN IF Len(xs) = 1 THEN h ELSE h \o "\n" \o join(Tail(xs))

IsTextPart_Any(item) == TRUE

IsTextPart(item) == item.type = "text"

RECURSIVE filter(_)
filter(items) ==
  IF Len(items) = 0 THEN <<>>
  ELSE IF IsTextPart(Head(items))
       THEN <<Head(items)>> \o filter(Tail(items))
       ELSE filter(Tail(items))

textParts(items) == [i \in 1..Len(filter(items)) |-> filter(items)[i].text]

extractContent(m) ==
  IF m.hasData /\ m.content.kind # "undefined"
  THEN IF m.content.kind = "array" THEN join(textParts(m.content.parts))
       ELSE IF m.content.kind = "string" THEN m.content.str
       ELSE StringOf(m.content)
  ELSE ""

ChatMessage(r, t) == [role |-> r, text |-> t]

\* the for loop over data.messages, loaded being the list built so far
RECURSIVE rebuild(_, _)
rebuild(ms, loaded) ==
  IF Len(ms) = 0 THEN loaded
  ELSE LET m == Head(ms)
           type == IF Falsy(m.type) THEN "unknown" ELSE m.type
       IN IF type = "system" THEN rebuild(Tail(ms), loaded)
          ELSE IF type = "human"
               THEN rebuild(Tail(ms), Append(loaded, ChatMessage("user", extractContent(m))))
          ELSE IF type = "ai"
               THEN rebuild(Tail(ms), Append(loaded, ChatMessage("ai", extractContent(m))))
          ELSE rebuild(Tail(ms), loaded)

detectedStore(sid) ==
  IF startsWith(sid, "darel-") THEN "darel"
  ELSE IF startsWith(sid, "ebay-") THEN "ebay"
  ELSE "depo"

(* ------------------------------ state ---------------------------------- *)
Init ==
  /\ \E p \in InitStorage : lsSid = p[1] /\ lsStore = p[2]
  /\ draft = ""
  /\ isSending = FALSE
  /\ error = ""
  /\ messages = <<>>
  /\ sessionId = (IF Falsy(lsSid) THEN "" ELSE lsSid)
  /\ store = (IF Falsy(lsStore) THEN "depo" ELSE lsStore)
  /\ sessions = <<>>
  /\ chatReqs = <<>>
  /\ loadReqs = (IF Falsy(lsSid) THEN <<>> ELSE <<lsSid>>)
  /\ listReqs = 1
  /\ lastOp = "mount"
  /\ nAccepted = 0
  /\ nAiAppended = 0
  /\ sidFromChat = FALSE
  /\ loadedFrom = <<>>

\* loadSessions() up to its await: one more fetch of the session list is in
\* flight.  No timeout is defined for a fetch, so one beyond MaxListReqs is
\* taken to stay pending and is not counted.
loadSessions(n) == IF n < MaxListReqs THEN n + 1 ELSE n

\* history: the last two operations were loadSession(id), newChat(), and the
\* fetch settled by this step is that loadSession's
AfterRace(op, i, outcome) ==
  IF op = "newChat_after_load" /\ i = Len(loadReqs)
  THEN outcome \o "_after_newChat" ELSE outcome

RemoveAt(s, i) == SubSeq(s, 1, i - 1) \o SubSeq(s, i + 1, Len(s))

\* histories the Session Store API returns in the controller's runs
Histories ==
  {<<>>,
   <<Entry("system", FALSE, NoContent), Entry("human", TRUE, StringContent),
     Entry("ai", TRUE, HelloContent)>>}

LoadResponses(id) == LoadResponsesOver(id, Histories)

(* ------------------------------ operations ----------------------------- *)
\* the input's onChange: setDraft(event.target.value)
SetDraft(d) ==
  /\ draft' = d
  /\ UNCHANGED <<isSending, error, messages, sessionId, store, sessions,
                 lsSid, lsStore, chatReqs, loadReqs, listReqs,
                 lastOp, nAccepted, nAiAppended, sidFromChat, loadedFrom>>

getChatEndpoint(st) ==
  IF st = "darel" THEN apiBaseUrl \o "/chat/darel"
  ELSE IF st = "ebay" THEN apiBaseUrl \o "/chat/ebay"
  ELSE apiBaseUrl \o "/chat"

SendRejected_IgnoresSending(d, sending) == trim(d) = ""

SendRejected_NoTrim(d, sending) == d = "" \/ sending

\* the early return of handleSend
SendRejected(d, sending) == trim(d) = "" \/ sending

UserMessage_Untrimmed(d) == ChatMessage("user", d)

UserMessage(d) == ChatMessage("user", trim(d))

ChatRequest(st, d, sid) ==
  [endpoint |-> getChatEndpoint(st), message |-> trim(d),
   session_id |-> IF Falsy(sid) THEN Undef ELSE sid]

\* handleSend up to its await of fetch
HandleSend ==
  IF SendRejected(draft, isSending)
  THEN /\ lastOp' = "submit_rejected"
       /\ loadedFrom' = <<>>
       /\ UNCHANGED <<draft, isSending, error, messages, sessionId, store,
                      sessions, lsSid, lsStore, chatReqs, loadReqs, listReqs,
                      nAccepted, nAiAppended, sidFromChat>>
  ELSE /\ nAccepted < MaxSubmits
       /\ error' = ""
       /\ isSending' = TRUE
       /\ messages' = Append(messages, UserMessage(draft))
       /\ draft' = ""
       /\ chatReqs' = Append(chatReqs, ChatRequest(store, draft, sessionId))
       /\ nAccepted' = nAccepted + 1
       /\ lastOp' = "submit_sent"
       /\ loadedFrom' = <<>>
       /\ UNCHANGED <<sessionId, store, sessions, lsSid, lsStore, loadReqs,
                      listReqs, nAiAppended, sidFromChat>>

\* the message of the condition handleSend's try block throws on r, "" if none
responseText(r) == IF r.response = Undef THEN "" ELSE trim(r.response)

ThrownMessage_NoEmptyCheck(r) ==
  CASE r.kind = "reject" ->
         IF r.isError THEN r.message ELSE "Unable to reach server"
    [] r.kind = "http" -> "Request failed with status " \o ToString(r.status)
    [] r.kind = "badjson" -> r.message
    [] OTHER -> ""

ThrownMessage(r) ==
  CASE r.kind = "reject" ->
         IF r.isError THEN r.message ELSE "Unable to reach server"
    [] r.kind = "http" -> "Request failed with status " \o ToString(r.status)
    [] r.kind = "badjson" -> r.message
    [] OTHER -> IF responseText(r) = "" THEN "Empty response from server" ELSE ""

AssistantMessages(r) == <<ChatMessage("ai", responseText(r))>>

HandleSendResponse_ClearsOnSuccessOnly(i, r) ==
  /\ i \in 1..Len(chatReqs)
  /\ chatReqs' = RemoveAt(chatReqs, i)
  /\ IF r.kind = "json" /\ ~Falsy(r.session_id)
     THEN /\ sessionId' = r.session_id
          /\ lsSid' = StorageString(r.session_id)
          /\ sidFromChat' = (ThrownMessage(r) = "")
     ELSE UNCHANGED <<sessionId, lsSid, sidFromChat>>
  /\ IF ThrownMessage(r) = ""
     THEN /\ messages' = messages \o AssistantMessages(r)
          /\ nAiAppended' = nAiAppended + Len(AssistantMessages(r))
          /\ listReqs' = loadSessions(listReqs)
          /\ lastOp' = "send_ok"
          /\ loadedFrom' = <<>>
          /\ UNCHANGED error
     ELSE /\ error' = ThrownMessage(r)
          /\ lastOp' = "send_failed"
          /\ loadedFrom' = <<>>
          /\ UNCHANGED <<messages, nAiAppended, listReqs>>
  /\ isSending' = (ThrownMessage(r) # "")
  /\ UNCHANGED <<draft, store, sessions, lsStore, loadReqs, nAccepted>>

\* handleSend from the resolution of fetch to the end of finally
HandleSendResponse(i, r) ==
  /\ i \in 1..Len(chatReqs)
  /\ chatReqs' = RemoveAt(chatReqs, i)
  /\ IF r.kind = "json" /\ ~Falsy(r.session_id)
     THEN /\ sessionId' = r.session_id
          /\ lsSid' = StorageString(r.session_id)
          /\ sidFromChat' = (ThrownMessage(r) = "")
     ELSE UNCHANGED <<sessionId, lsSid, sidFromChat>>
  /\ IF ThrownMessage(r) = ""
     THEN /\ messages' = messages \o AssistantMessages(r)
          /\ nAiAppended' = nAiAppended + Len(AssistantMessages(r))
          /\ listReqs' = loadSessions(listReqs)
          /\ lastOp' = "send_ok"
          /\ loadedFrom' = <<>>
          /\ UNCHANGED error
     ELSE /\ error' = ThrownMessage(r)
          /\ lastOp' = "send_failed"
          /\ loadedFrom' = <<>>
          /\ UNCHANGED <<messages, nAiAppended, listReqs>>
  /\ isSending' = FALSE
  /\ UNCHANGED <<draft, store, sessions, lsStore, loadReqs, nAccepted>>

\* loadSessions from the resolution of fetch on
LoadSessionsResponse(r) ==
  /\ listReqs > 0
  /\ listReqs' = listReqs - 1
  /\ IF r.kind = "json"
     THEN sessions' = (IF r.hasSessions THEN r.sessions ELSE <<>>)
     ELSE UNCHANGED sessions
  /\ UNCHANGED <<draft, isSending, error, messages, sessionId, store,
                 lsSid, lsStore, chatReqs, loadReqs,
                 lastOp, nAccepted, nAiAppended, sidFromChat, loadedFrom>>

\* a click on a session of the sidebar: loadSession(id) up to its await
LoadSession(id) ==
  /\ \E k \in 1..Len(sessions) : sessions[k].session_id = id
  /\ Len(loadReqs) < MaxLoadReqs
  /\ loadReqs' = Append(loadReqs, id)
  /\ lastOp' = "load_started"
  /\ loadedFrom' = <<>>
  /\ UNCHANGED <<draft, isSending, error, messages, sessionId, store,
                 sessions, lsSid, lsStore, chatReqs, listReqs,
                 nAccepted, nAiAppended, sidFromChat>>

\* loadSession from the resolution of fetch on
LoadSessionResponse(i, r) ==
  /\ i \in 1..Len(loadReqs)
  /\ loadReqs' = RemoveAt(loadReqs, i)
  /\ IF r.kind # "json"
     THEN /\ lastOp' = AfterRace(lastOp, i, "load_caught")
          /\ loadedFrom' = <<>>
          /\ UNCHANGED <<sessionId, lsSid, store, lsStore, messages, error,
                         listReqs, sidFromChat>>
     ELSE IF r.session_id = Undef
     THEN \* data.session_id.startsWith throws after the id was stored
          /\ sessionId' = r.session_id
          /\ lsSid' = StorageString(r.session_id)
          /\ sidFromChat' = FALSE
          /\ lastOp' = AfterRace(lastOp, i, "load_caught")
          /\ loadedFrom' = <<>>
          /\ UNCHANGED <<store, lsStore, messages, error, listReqs>>
     ELSE /\ sessionId' = r.session_id
          /\ lsSid' = StorageString(r.session_id)
          /\ sidFromChat' = FALSE
          /\ store' = detectedStore(r.session_id)
          /\ lsStore' = detectedStore(r.session_id)
          /\ messages' = rebuild(IF r.hasMessages THEN r.messages ELSE <<>>, <<>>)
          /\ error' = ""
          /\ listReqs' = loadSessions(listReqs)
          /\ lastOp' = AfterRace(lastOp, i, "load_done")
          /\ loadedFrom' = (IF r.hasMessages THEN r.messages ELSE <<>>)
  /\ UNCHANGED <<draft, isSending, sessions, chatReqs, nAccepted, nAiAppended>>

handleNewChat_KeepsPersistedSid ==
  /\ sessionId' = ""
  /\ messages' = <<>>
  /\ error' = ""
  /\ lsSid' = lsSid
  /\ listReqs' = loadSessions(listReqs)
  /\ sidFromChat' = FALSE

handleNewChat ==
  /\ sessionId' = ""
  /\ messages' = <<>>
  /\ error' = ""
  /\ lsSid' = Undef
  /\ listReqs' = loadSessions(listReqs)
  /\ sidFromChat' = FALSE

HandleNewChat ==
  /\ handleNewChat
  /\ lastOp' = (IF lastOp = "load_started" THEN "newChat_after_load" ELSE "newChat")
  /\ loadedFrom' = <<>>
  /\ UNCHANGED <<draft, isSending, store, sessions, lsStore, chatReqs,
                 loadReqs, nAccepted, nAiAppended>>

HandleStoreChange(newStore) ==
  /\ store' = newStore
  /\ lsStore' = newStore
  /\ handleNewChat
  /\ lastOp' = "storeChange"
  /\ loadedFrom' = <<>>
  /\ UNCHANGED <<draft, isSending, sessions, chatReqs, loadReqs,
                 nAccepted, nAiAppended>>

Next ==
  \/ \E d \in Drafts : SetDraft(d)
  \/ HandleSend
  \/ \E i \in 1..Len(chatReqs), r \in ChatResponses : HandleSendResponse(i, r)
  \/ \E r \in ListResponses : LoadSessionsResponse(r)
  \/ \E id \in SessionIds : LoadSession(id)
  \/ \E i \in 1..Len(loadReqs) :
       \E r \in LoadResponses(loadReqs[i]) : LoadSessionResponse(i, r)
  \/ HandleNewChat
  \/ \E t \in Stores : HandleStoreChange(t)

Spec == Init /\ [][Next]_vars

\* Every chat request resolves, and once it has the event loop runs the rest
\* of handleSend (try, catch and finally) to its end.
SettleChat ==
  \E i \in 1..Len(chatReqs), r \in ChatResponses : HandleSendResponse(i, r)

SpecLive == Spec /\ WF_vars(SettleChat)

(* ------ a Chat API whose session ids carry the prefix of the route ----- *)
\* the responses to request req of a Chat API that only returns session ids
\* whose prefix is that of the store whose route served req
RoutedResponses(req) ==
  {r \in ChatResponses :
     r.session_id = Undef
       \/ getChatEndpoint(detectedStore(r.session_id)) = req.endpoint}

NextRouted ==
  \/ \E d \in Drafts : SetDraft(d)
  \/ HandleSend
  \/ \E i \in 1..Len(chatReqs) :
       \E r \in RoutedResponses(chatReqs[i]) : HandleSendResponse(i, r)
  \/ \E r \in ListResponses : LoadSessionsResponse(r)
  \/ \E id \in SessionIds : LoadSession(id)
  \/ \E i \in 1..Len(loadReqs) :
       \E r \in LoadResponses(loadReqs[i]) : LoadSessionResponse(i, r)
  \/ HandleNewChat
  \/ \E t \in Stores : HandleStoreChange(t)

SpecRouted == Init /\ [][NextRouted]_vars

(* ------------- history rebuild over all short histories ---------------- *)
MaxHistLen == 2

AllHistories ==
  UNION {[1..n -> HistoryEntries] : n \in 0..MaxHistLen}

InitRebuild ==
  /\ lsSid = "depo-1"
  /\ lsStore = Undef
  /\ draft = ""
  /\ isSending = FALSE
  /\ error = ""
  /\ messages = <<>>
  /\ sessionId = "depo-1"
  /\ store = "depo"
  /\ sessions = <<SessionInfo("depo-1", 1)>>
  /\ chatReqs = <<>>
  /\ loadReqs = <<"depo-1">>
  /\ listReqs = 1
  /\ lastOp = "mount"
  /\ nAccepted = 0
  /\ nAiAppended = 0
  /\ sidFromChat = FALSE
  /\ loadedFrom = <<>>

NextRebuild ==
  \/ \E id \in SessionIds : LoadSession(id)
  \/ \E i \in 1..Len(loadReqs) :
       \E r \in LoadResponsesOver(loadReqs[i], AllHistories) :
         LoadSessionResponse(i, r)

SpecRebuild == InitRebuild /\ [][NextRebuild]_vars

(* ------------------------------ properties ----------------------------- *)
\* the step issues a chat request; the step settles one
ChatStarts == Len(chatReqs') > Len(chatReqs)

ChatSettles == Len(chatReqs') < Len(chatReqs)

IsBlank(s) == \A k \in 1..Len(s) : IsSpace(SubSeq(s, k, k))

\* t is d without its leading and trailing white space
IsTrimOf(t, d) ==
  \E a, b \in 0..Len(d) :
    /\ a + b <= Len(d)
    /\ IsBlank(SubSeq(d, 1, a))
    /\ IsBlank(SubSeq(d, Len(d) - b + 1, Len(d)))
    /\ t = SubSeq(d, a + 1, Len(d) - b)
    /\ t = "" \/ (~IsSpace(SubSeq(t, 1, 1)) /\ ~IsSpace(SubSeq(t, Len(t), Len(t))))

\* C1: at most one chat request is in flight in every reachable state, and a
\* submit() made while the sending flag is true issues no request and leaves
\* the message list, draft, error, sending flag and session id as they were.
C1_SingleRequestInFlight ==
  /\ [](Len(chatReqs) <= 1)
  /\ [][(isSending /\ HandleSend) =>
          UNCHANGED <<chatReqs, messages, draft, error, isSending, sessionId,
                      lsSid>>]_vars

C1_Witness ==
  /\ lastOp = "submit_rejected"
  /\ isSending
  /\ trim(draft) # ""
  /\ Len(chatReqs) = 1

\* the operations C2 allows to change a session id that is held
C2_AllowedChange ==
  {"newChat", "newChat_after_load", "storeChange", "load_done",
   "load_done_after_newChat", "send_ok", "send_failed"}

\* C2: a chat response carrying a session id S makes the session id and the
\* persisted session id S; every submit() sends the session id held, and none
\* when none is held; a session id adopted from a chat response stays held and
\* persisted until newChat(), changeStore(), a successful loadSession() or a
\* chat response changes it.
C2_SessionContinuity ==
  /\ [][(ChatSettles /\ lastOp' = "send_ok") =>
          \A i \in 1..Len(chatReqs), r \in ChatResponses :
            (HandleSendResponse(i, r) /\ r.session_id \in SessionIds)
              => (sessionId' = r.session_id /\ lsSid' = r.session_id)]_vars
  /\ [][ChatStarts =>
          chatReqs'[Len(chatReqs')].session_id
            = (IF sessionId \in SessionIds THEN sessionId ELSE Undef)]_vars
  /\ [][(sidFromChat /\ lastOp' \notin C2_AllowedChange) =>
          (sessionId' = sessionId /\ lsSid' = sessionId)]_vars

\* the failures of a submission C3 names
C3_SubmissionFails(r) ==
  \/ r.kind \in {"reject", "http", "badjson"}
  \/ /\ r.kind = "json"
     /\ r.response = Undef \/ IsBlank(r.response)
     /\ r.results = <<>>

\* C3: the step that handles a failed submission sets a non-empty error and
\* leaves the message list as it was: no assistant message is appended and
\* the user message of the submission is not removed.
C3_FailureSetsError ==
  [][ChatSettles =>
       \A i \in 1..Len(chatReqs), r \in ChatResponses :
         (C3_SubmissionFails(r) /\ HandleSendResponse(i, r))
           => (error' # "" /\ messages' = messages)]_vars

C3_Witness ==
  /\ lastOp = "send_failed"
  /\ error = "Empty response from server"
  /\ Len(messages) > 0
  /\ messages[Len(messages)] = ChatMessage("user", "hi")

\* C4: submit() with an empty or whitespace-only draft issues no request and
\* changes none of message list, sending flag, error, draft, session id and
\* store tag, nor what is persisted.
C4_BlankDraftNoOp ==
  [][(IsBlank(draft) /\ HandleSend) =>
       UNCHANGED <<messages, isSending, error, draft, sessionId, store,
                   chatReqs, lsSid, lsStore, sessions>>]_vars

C4_Witness ==
  /\ lastOp = "submit_rejected"
  /\ draft = "  "
  /\ ~isSending

\* C5: an accepted submit() appends exactly one user message carrying the
\* trimmed draft and issues its request in the same step; the step that
\* handles the response appends nothing or one assistant message; assistant
\* messages appended by submissions never outnumber accepted submissions.
C5_OneUserAtMostOneAssistant ==
  /\ [](nAiAppended <= nAccepted)
  /\ [][(~IsBlank(draft) /\ ~isSending /\ HandleSend) =>
          (/\ Len(messages') = Len(messages) + 1
           /\ SubSeq(messages', 1, Len(messages)) = messages
           /\ messages'[Len(messages')].role = "user"
           /\ IsTrimOf(messages'[Len(messages')].text, draft)
           /\ Len(chatReqs') = Len(chatReqs) + 1
           /\ nAccepted' = nAccepted + 1)]_vars
  /\ [][ChatSettles =>
          \/ messages' = messages /\ nAiAppended' = nAiAppended
          \/ /\ Len(messages') = Len(messages) + 1
             /\ SubSeq(messages', 1, Len(messages)) = messages
             /\ messages'[Len(messages')].role = "ai"
             /\ nAiAppended' = nAiAppended + 1]_vars

C5_Witness ==
  /\ lastOp = "send_ok"
  /\ nAccepted = 2
  /\ nAiAppended = 2
  /\ Len(messages) = 4

\* the failures of loadSession C6 names
C6_LoadFails(r) ==
  \/ r.kind # "json"
  \/ r.status \notin 200..299
  \/ r.session_id = Undef
  \/ ~r.hasMessages

\* C6: a loadSession that fails leaves session id, store tag, message list,
\* error and the persisted session id and store tag as they were.
C6_FailedLoadChangesNothing ==
  [][\A i \in 1..Len(loadReqs) : \A r \in LoadResponses(loadReqs[i]) :
       (C6_LoadFails(r) /\ LoadSessionResponse(i, r))
         => UNCHANGED <<sessionId, store, messages, error, lsSid, lsStore>>]_vars

\* the failures of loadSessions C7 names
C7_ListFails(r) ==
  \/ r.kind # "json"
  \/ r.status \notin 200..299
  \/ ~r.hasSessions

\* C7: a loadSessions that fails keeps the known-sessions list and surfaces
\* no error.
C7_FailedListKeepsSessions ==
  [][\A r \in ListResponses :
       (C7_ListFails(r) /\ LoadSessionsResponse(r))
         => (sessions' = sessions /\ error' = error)]_vars

\* C8: when newChat() directly follows the start of loadSession(id), then once
\* that loadSession has settled the message list is empty and no session id
\* is persisted.
C8_NewChatWinsOverLoad ==
  lastOp \in {"load_done_after_newChat", "load_caught_after_newChat"}
    => (messages = <<>> /\ lsSid = Undef)

\* the entries C9 keeps, in history order
C9_Kept(h) == SelectSeq(h, LAMBDA m : m.type \in {"human", "ai"})

\* the newline-joined text of the parts tagged "text"
RECURSIVE C9_JoinText(_)
C9_JoinText(parts) ==
  IF parts = <<>> THEN ""
  ELSE LET init == SubSeq(parts, 1, Len(parts) - 1)
           last == parts[Len(parts)]
       IN IF last.type # "text" THEN C9_JoinText(init)
          ELSE IF \A k \in 1..Len(init) : init[k].type # "text" THEN last.text
          ELSE C9_JoinText(init) \o "\n" \o last.text

C9_Coerced(c) ==
  CASE c.kind = "number" -> ToString(c.num)
    [] c.kind = "undefined" -> "undefined"

\* the text C9 gives an entry: its string coercion when its content is
\* neither a string nor an array
C9_TextAsClaimed(m) ==
  IF m.hasData /\ m.content.kind = "string" THEN m.content.str
  ELSE IF m.hasData /\ m.content.kind = "array" THEN C9_JoinText(m.content.parts)
  ELSE C9_Coerced(m.content)

\* the same, with the empty string for an entry without data or content
C9_TextAmended(m) ==
  IF ~m.hasData \/ m.content.kind = "undefined" THEN ""
  ELSE C9_TextAsClaimed(m)

C9_RoleOf(m) == IF m.type = "human" THEN "user" ELSE "ai"

C9_Loaded == lastOp \in {"load_done", "load_done_after_newChat"}

\* C9 as stated: after a successful loadSession the message list is one
\* message per human or ai entry, in order, with the text as claimed.
C9_RebuildAsClaimed ==
  C9_Loaded =>
    messages = [k \in 1..Len(C9_Kept(loadedFrom)) |->
                  ChatMessage(C9_RoleOf(C9_Kept(loadedFrom)[k]),
                              C9_TextAsClaimed(C9_Kept(loadedFrom)[k]))]

\* C9 amended: after a successful loadSession the message list is one message
\* per human or ai entry, in history order (system and other entries give
\* none); its text is the content when a string, the newline-joined text of
\* the parts tagged "text" when an array, the empty string when the entry has
\* no data or no content, and the string coercion of the content otherwise.
C9_RebuildAmended ==
  C9_Loaded =>
    messages = [k \in 1..Len(C9_Kept(loadedFrom)) |->
                  ChatMessage(C9_RoleOf(C9_Kept(loadedFrom)[k]),
                              C9_TextAmended(C9_Kept(loadedFrom)[k]))]

C9_Witness ==
  /\ C9_Loaded
  /\ Len(loadedFrom) = 2
  /\ loadedFrom[1].type = "system"
  /\ loadedFrom[2].type = "ai"
  /\ loadedFrom[2].content.kind = "array"
  /\ Len(loadedFrom[2].content.parts) = 3
  /\ messages = <<ChatMessage("ai", "a\nb")>>

\* C10: the step changeStore(tag) makes leaves the store tag and persisted store
\* tag equal to tag, no session id held or persisted, and message list and
\* error empty; the step newChat() makes changes neither store tag.
C10_StoreChangeStartsFresh ==
  /\ [][\A t \in Stores :
          HandleStoreChange(t) =>
            /\ store' = t /\ lsStore' = t
            /\ sessionId' = "" /\ lsSid' = Undef
            /\ messages' = <<>> /\ error' = ""]_vars
  /\ [][HandleNewChat => (store' = store /\ lsStore' = lsStore)]_vars

C10_Witness ==
  /\ lastOp = "storeChange"
  /\ store = "ebay"
  /\ lsStore = "ebay"
  /\ lsSid = Undef
  /\ nAccepted > 0

\* the store C11 infers from a session id's prefix
C11_InferredStore(sid) ==
  CASE Len(sid) >= 6 /\ SubSeq(sid, 1, 6) = "darel-" -> "darel"
    [] Len(sid) >= 5 /\ SubSeq(sid, 1, 5) = "ebay-" -> "ebay"
    [] OTHER -> "depo"

\* a loadSession that succeeds: a 2xx body with a session id and a history
C11_LoadSucceeds(r) ==
  /\ r.kind = "json"
  /\ r.status \in 200..299
  /\ r.session_id # Undef
  /\ r.hasMessages

\* C11: the step that handles a successful loadSession makes the session id
\* and the persisted session id the returned id, the store tag and the
\* persisted store tag the store inferred from that id's prefix, the error
\* empty and the message list the messages rebuilt from the returned history
\* alone; and the reply of a submission started before the load replaced the
\* conversation is not merged into the loaded message list.
C11_LoadReplacesWholesale ==
  /\ [][\A i \in 1..Len(loadReqs) : \A r \in LoadResponses(loadReqs[i]) :
          (C11_LoadSucceeds(r) /\ LoadSessionResponse(i, r)) =>
            /\ sessionId' = r.session_id
            /\ lsSid' = r.session_id
            /\ store' = C11_InferredStore(r.session_id)
            /\ lsStore' = C11_InferredStore(r.session_id)
            /\ error' = ""
            /\ messages' =
                 [k \in 1..Len(C9_Kept(r.messages)) |->
                    ChatMessage(C9_RoleOf(C9_Kept(r.messages)[k]),
                                C9_TextAmended(C9_Kept(r.messages)[k]))]]_vars
  /\ [][(C9_Loaded /\ ChatSettles) => messages' = messages]_vars

\* a 2xx chat response C12 counts as a success
C12_CarriesTextOrResults(r) ==
  /\ r.kind = "json"
  /\ r.status \in 200..299
  /\ \/ r.response # Undef /\ ~IsBlank(r.response)
     \/ r.results # <<>>

\* C12: the step that handles a 2xx chat response carrying non-blank reply
\* text or a non-empty results list (either alone) appends exactly one
\* assistant message and sets no error.
C12_TextOrResultsSucceeds ==
  [][ChatSettles =>
       \A i \in 1..Len(chatReqs), r \in ChatResponses :
         (C12_CarriesTextOrResults(r) /\ HandleSendResponse(i, r)) =>
           /\ Len(messages') = Len(messages) + 1
           /\ SubSeq(messages', 1, Len(messages)) = messages
           /\ messages'[Len(messages')].role = "ai"
           /\ error' = ""]_vars

\* C13: the step that handles the resolution of a chat request, a success or
\* any failure, leaves the sending flag false; a submit() with a non-blank
\* draft made while the flag is false is accepted; and when every chat
\* request resolves, a sending flag that is true is false again later.
C13_SendingFlagCleared ==
  /\ [][ChatSettles => ~isSending']_vars
  /\ [][(~isSending /\ ~IsBlank(draft) /\ HandleSend) => ChatStarts]_vars
  /\ (isSending ~> ~isSending)

C13_Witness ==
  /\ lastOp = "submit_sent"
  /\ isSending
  /\ error = ""
  /\ nAccepted = 2
  /\ nAiAppended = 0
  /\ Len(messages) = 2
  /\ messages[1].role = "user"
  /\ messages[2].role = "user"

\* the route of the store a session id belongs to
C14_RouteOf(sid) ==
  CASE C11_InferredStore(sid) = "darel" -> "/chat/darel"
    [] C11_InferredStore(sid) = "ebay" -> "/chat/ebay"
    [] OTHER -> "/chat"

\* C14: with a Chat API that only returns session ids whose prefix matches
\* the route that served the request, in every reachable state in which a
\* session id is held the store tag is the store inferred from the id's
\* prefix, and every chat request that carries a session id goes to the route
\* of the store that id belongs to.
C14_StoreMatchesSession ==
  /\ [](sessionId \in SessionIds => store = C11_InferredStore(sessionId))
  /\ [][ChatStarts =>
          LET req == chatReqs'[Len(chatReqs')]
          IN req.session_id # Undef
               => req.endpoint = apiBaseUrl \o C14_RouteOf(req.session_id)]_vars

\* C15: the step that handles a failed submission leaves the session id and
\* the persisted session id as they were, and a step that handles a chat
\* response changes the session id only when it also appends an assistant
\* message.
C15_FailureKeepsSessionId ==
  /\ [][ChatSettles =>
          \A i \in 1..Len(chatReqs), r \in ChatResponses :
            (C3_SubmissionFails(r) /\ HandleSendResponse(i, r))
              => (sessionId' = sessionId /\ lsSid' = lsSid)]_vars
  /\ [][(ChatSettles /\ (sessionId' # sessionId \/ lsSid' # lsSid)) =>
          /\ Len(messages') = Len(messages) + 1
          /\ messages'[Len(messages')].role = "ai"]_vars

====
